---- MODULE Spec2Model ----
(***************************************************************************)
(* Verification model of the parametric drill designer.                    *)
(*                                                                         *)
(* Lengths are fixed-point integers in hundredths of a millimetre          *)
(* (Scale units per mm); angles are whole degrees.  Axial positions are    *)
(* kept doubled (suffix 2) so that halving a length never loses a unit.    *)
(***************************************************************************)
EXTENDS Integers, Sequences, FiniteSets, TLC

VARIABLES
    genParams,        \* argument of the function called (GenSpec, ValidateSpec)
    genFault,         \* which library call throws during that call (GenSpec)
    genOut,           \* what the call returned and logged (GenSpec)
    validated,        \* what validateDrillParameters returned (ValidateSpec)
    calc,             \* runs of the length calculation so far (ClampSpec)
    chamferCalls,     \* chamfer heights computed so far (ChamferSpec)
    meshCalls,        \* meshes built for the viewport and for STL (MeshSpec)
    dxf,              \* the drawn object and the drawings made of it (DxfSpec)
    parameters,       \* DrillGenerator page: useState parameters
    isModelGenerated, \* DrillGenerator page: useState isModelGenerated
    isGenerating,     \* DrillGenerator page: useState isGenerating
    genTimers,        \* pending 30 s timeouts of handleGenerateModel
    loadingBarTimer,  \* LoadingBar's pending 500 ms onComplete timeout
    debounceTimer,    \* ParameterInput: debounceTimer ref (pending update)
    showToasts,       \* SettingsContext.showToasts
    toasts,           \* toasts emitted by the last handler that ran
    viewerCalls,      \* parameter set of the last viewer regeneration
    viewerStarted,    \* TRUE once the viewer has called generateDrillGeometry
    viewer,           \* DrillViewer: its props, refs, scene and disposals
    exportFormat,     \* format of the export in flight
    exportStage,      \* position of the export flow
    exportPromise,    \* settlement of exportDrillModel's promise
    callerBranch,     \* branch the export's caller took
    exportCaller,     \* which component started the export
    exportUtils,      \* which version of lib/exportUtils the build holds
    downloads         \* files for which a download was triggered

vars == <<genParams, genFault, genOut, validated, calc, chamferCalls,
          meshCalls, dxf,
          parameters,
          isModelGenerated, isGenerating, genTimers, loadingBarTimer, debounceTimer,
          showToasts, toasts, viewerCalls, viewerStarted, viewer,
          exportFormat,
          exportStage, exportPromise, callerBranch, exportCaller,
          exportUtils, downloads>>

pureVars == <<chamferCalls, meshCalls, dxf>>
genVars == <<genParams, genFault, genOut, validated, calc, pureVars>>
uiVars == <<parameters, isModelGenerated, isGenerating, genTimers,
            loadingBarTimer, debounceTimer, viewerCalls, viewerStarted>>
exportVars == <<exportFormat, exportStage, exportPromise, callerBranch,
                exportCaller, exportUtils, downloads>>

----------------------------------------------------------------------------
(* Units and arithmetic                                                    *)

\* hundredths of a millimetre
Scale == 10 * 10

Max(a, b) == IF a >= b THEN a ELSE b
Min(a, b) == IF a <= b THEN a ELSE b
Abs(a) == IF a < 0 THEN -a ELSE a

\* Math.round on a fixed-point value: nearest whole millimetre, ties up.
MathRound(x) == ((x + Scale \div 2) \div Scale) * Scale

\* Bounds of the model
MaxFlutes == 2
MaxGenTimers == 2

----------------------------------------------------------------------------
(* drillGenerator.ts: constants and derived quantities                     *)

MIN_DIAMETER == 10
MAX_SHANK_DIAMETER == 3200
MIN_SEGMENTS == 16
MAX_SEGMENTS == 64

calculateSegments(d, isFlute) ==
    LET baseMultiplier == IF isFlute THEN 24 ELSE 16
    IN  Max(MIN_SEGMENTS, Min(MAX_SEGMENTS, (d * baseMultiplier) \div Scale))

\* 10000 / tan(tipAngle / 2), for the tip angles the model uses.
Cot10k(tipAngle) ==
    CASE tipAngle = 60  -> 17321
      [] tipAngle = 90  -> 10000
      [] tipAngle = 118 -> 6009
      [] tipAngle = 140 -> 3640

\* A tip taken to be flat from 118 degrees on
tipHeightOfBluntFlat(effectiveDiameter, tipAngle) ==
    IF tipAngle >= 118 THEN 0
    ELSE (effectiveDiameter * Cot10k(tipAngle)) \div 20000

tipHeightOf(effectiveDiameter, tipAngle) ==
    IF tipAngle = 180 THEN 0
    ELSE (effectiveDiameter * Cot10k(tipAngle)) \div 20000

\* effectiveDiameter * 1.35
extensionOf(effectiveDiameter) == (effectiveDiameter * 135) \div 100

flutedPartLengthOf(fluteLength, tipHeight, effectiveDiameter) ==
    fluteLength - tipHeight - extensionOf(effectiveDiameter)

chamferHeightOf(effectiveDiameter, effectiveShankDiameter) ==
    Abs(effectiveDiameter - effectiveShankDiameter) \div 2

totalLengthOf(shank, chamfer, nonCutting, flutedPart, tip) ==
    shank + chamfer + nonCutting + flutedPart + tip

----------------------------------------------------------------------------
(* JavaScript numbers of the flute path: a finite fixed-point value (Scale  *)
(* units per 1), an infinity, or NaN, with the IEEE 754 results of the     *)
(* operations the path uses.                                               *)

Fin(n) == [k |-> "fin", v |-> n]
Inf(sign) == [k |-> "inf", v |-> sign]
NaN == [k |-> "nan", v |-> 0]
Sign(n) == IF n < 0 THEN -1 ELSE 1
IsFinite(a) == a.k = "fin"

xmul(a, b) ==
    IF a.k = "nan" \/ b.k = "nan" THEN NaN
    ELSE IF a.k = "fin" /\ b.k = "fin" THEN Fin((a.v * b.v) \div Scale)
    ELSE IF (a.k = "fin" /\ a.v = 0) \/ (b.k = "fin" /\ b.v = 0) THEN NaN
    ELSE Inf(Sign(a.v) * Sign(b.v))

xdiv(a, b) ==
    IF a.k = "nan" \/ b.k = "nan" THEN NaN
    ELSE IF a.k = "fin" /\ b.k = "fin"
    THEN IF b.v # 0 THEN Fin((a.v * Scale) \div b.v)
         ELSE IF a.v = 0 THEN NaN ELSE Inf(Sign(a.v))
    ELSE IF a.k = "fin" THEN Fin(0)
    ELSE IF b.k = "fin" THEN Inf(Sign(a.v) * Sign(b.v))
    ELSE NaN

xneg(a) ==
    IF a.k = "nan" THEN NaN
    ELSE IF a.k = "fin" THEN Fin(-a.v) ELSE Inf(-a.v)

xadd(a, b) ==
    IF a.k = "nan" \/ b.k = "nan" THEN NaN
    ELSE IF a.k = "fin" /\ b.k = "fin" THEN Fin(a.v + b.v)
    ELSE IF a.k = "inf" /\ b.k = "inf"
    THEN IF a.v = b.v THEN a ELSE NaN
    ELSE IF a.k = "inf" THEN a ELSE b

xsub(a, b) == xadd(a, xneg(b))

\* a <= b, which is false when either side is NaN
xle(a, b) ==
    IF a.k = "nan" \/ b.k = "nan" THEN FALSE
    ELSE IF a.k = "inf" THEN a.v = -1 \/ (b.k = "inf" /\ b.v = 1)
    ELSE IF b.k = "inf" THEN b.v = 1
    ELSE a.v <= b.v

RECURSIVE isqrtIter(_, _)
isqrtIter(n, x) ==
    LET y == (x + n \div x) \div 2
    IN  IF y >= x THEN x ELSE isqrtIter(n, y)

\* Math.sqrt
xsqrt(a) ==
    IF a.k = "nan" THEN NaN
    ELSE IF a.k = "inf" THEN (IF a.v = 1 THEN a ELSE NaN)
    ELSE IF a.v < 0 THEN NaN
    ELSE IF a.v = 0 THEN Fin(0)
    ELSE Fin(isqrtIter(a.v * Scale, a.v * Scale))

\* Math.PI and 2 * Math.PI
Pi == Fin(314)
TwoPi == Fin(628)

\* Math.tan(helixAngle * Math.PI / 180); tan(0) is exactly 0
TanOf(helixAngle) ==
    CASE helixAngle = 0  -> Fin(0)
      [] helixAngle = 30 -> Fin(58)

\* new UnifiedHelixAndExtensionCurve(...): the constructor's fields
UnifiedHelixAndExtensionCurve(radius, helixHeight, helixPitch, baseAngle, startY2, extensionLength) ==
    LET helixTotalRevolutions == xdiv(helixHeight, helixPitch)
        helixLength ==
            xmul(helixTotalRevolutions,
                 xadd(xmul(TwoPi, radius),
                      xdiv(xmul(helixPitch, helixPitch),
                           xmul(TwoPi, radius))))
    IN  [radius |-> radius, helixHeight |-> helixHeight,
         helixPitch |-> helixPitch, baseAngle |-> baseAngle,
         startY2 |-> startY2, extensionLength |-> extensionLength,
         helixTotalRevolutions |-> helixTotalRevolutions,
         totalLength |-> xadd(helixLength, extensionLength)]

\* getPoint(t).  A point is given by the angular position of its foot on
\* the cylinder of the curve's radius, its offset along the tangent there,
\* and its doubled height: x = r cos(angle) - offset sin(angle),
\* z = r sin(angle) + offset cos(angle).
getPoint(c, t) ==
    LET extensionRatio == xdiv(c.extensionLength, c.totalLength)
    IN  IF xle(t, extensionRatio)
        THEN LET extensionT == xdiv(t, extensionRatio)
                 pitchFactor == xdiv(c.helixPitch, TwoPi)
                 tangentLength ==
                     xsqrt(xadd(xmul(c.radius, c.radius),
                                xmul(pitchFactor, pitchFactor)))
                 rest == xmul(c.extensionLength,
                              xsub(Fin(Scale), extensionT))
             IN  [angle |-> c.baseAngle,
                  offset |-> xmul(xdiv(c.radius, tangentLength), rest),
                  y2 |-> xsub(c.startY2,
                              xmul(Fin(2 * Scale),
                                   xmul(xdiv(pitchFactor, tangentLength),
                                        rest)))]
        ELSE LET helixT == xdiv(xsub(t, extensionRatio),
                                xsub(Fin(Scale), extensionRatio))
             IN  [angle |-> xsub(c.baseAngle,
                                 xmul(helixT,
                                      xmul(c.helixTotalRevolutions,
                                           TwoPi))),
                  offset |-> Fin(0),
                  y2 |-> xadd(c.startY2,
                              xmul(Fin(2 * Scale),
                                   xmul(helixT, c.helixHeight)))]

\* The values of t at which the path of a tube is recorded
PathSamples == <<Fin(0), Fin(Scale \div 2), Fin(Scale)>>

----------------------------------------------------------------------------
(* Meshes.  A geometry is the ordered list of the solids it was built      *)
(* from, the cutter subtracted from it, and what has been computed on it.  *)

NoMesh == [kind |-> "none", parts |-> <<>>, cutter |-> <<>>,
           hasPosition |-> FALSE, hasUV |-> FALSE,
           normalsRecomputed |-> FALSE, boundsComputed |-> FALSE]

Solid(type, diameterTop, diameterBottom, height, radialSegments, centre2) ==
    [type |-> type, diameterTop |-> diameterTop,
     diameterBottom |-> diameterBottom, height |-> height,
     radialSegments |-> radialSegments, centre2 |-> centre2]

mergeBufferGeometries(geometries) ==
    [kind |-> "merged", parts |-> geometries, cutter |-> <<>>,
     hasPosition |-> TRUE, hasUV |-> TRUE,
     normalsRecomputed |-> FALSE, boundsComputed |-> FALSE]

\* CSG.fromMesh(drill).subtract(CSG.fromMesh(flute)), then CSG.toMesh
csgSubtract(drill, flute) ==
    [kind |-> "csg", parts |-> drill.parts, cutter |-> flute.parts,
     hasPosition |-> TRUE, hasUV |-> TRUE,
     normalsRecomputed |-> FALSE, boundsComputed |-> FALSE]

\* console.error: one more entry on the error log.
consoleError(log, message) == Append(log, message)

RECURSIVE consoleErrorTimes(_, _, _)
consoleErrorTimes(log, message, n) ==
    IF n = 0 THEN log
    ELSE consoleErrorTimes(consoleError(log, message), message, n - 1)

\* healGeometry: the healed clone and what it logged.
healGeometry(geometry) ==
    IF ~geometry.hasPosition
    THEN [geometry |-> geometry,
          log |-> consoleError(<<>>,
                               "Geometry missing position attribute")]
    ELSE [geometry |-> [geometry EXCEPT !.normalsRecomputed = TRUE,
                                        !.hasUV = TRUE,
                                        !.boundsComputed = TRUE],
          log |-> <<>>]

Healed(g) == g.normalsRecomputed /\ g.hasUV /\ g.boundsComputed

----------------------------------------------------------------------------
(* generateDrillGeometry.  The second argument names the library calls     *)
(* that throw during the call: f.at is the first throwing call of the      *)
(* primitive, merge or boolean stage ("none" if there is none) and         *)
(* f.tubes the flutes whose curve or tube construction throws.             *)

PrimitiveThrowPoints == {"shank", "chamfer", "nonCutting", "flutedPart",
                         "tip", "mergeBody"}
CsgThrowPoints == {"toNonIndexed", "fromMesh", "subtract", "toMesh"}
ThrowPoints == {"none"} \cup PrimitiveThrowPoints \cup {"mergeFlutes"}
                 \cup CsgThrowPoints \cup {"heal"}

\* A flute count off by one with the guard dropped: for (flute <= fluteCount)
fluteIndicesInclusive(fluteCount) == 0..fluteCount

\* if (fluteCount > 0) for (flute = 0; flute < fluteCount; flute++)
fluteIndicesOf(fluteCount) ==
    IF fluteCount > 0 THEN 0..(fluteCount - 1) ELSE {}

\* The fallback of the outer catch.
fallbackCylinder(effectiveDiameter, totalLength) ==
    [kind |-> "cylinder",
     parts |-> <<Solid("cylinder", effectiveDiameter, effectiveDiameter,
                       totalLength, MIN_SEGMENTS, 0)>>,
     cutter |-> <<>>, hasPosition |-> TRUE, hasUV |-> TRUE,
     normalsRecomputed |-> FALSE, boundsComputed |-> FALSE]

GenResult(geometry, log, blank, tubes, booleanOps, totalLength, path) ==
    [geometry |-> geometry, log |-> log, blank |-> blank, tubes |-> tubes,
     booleanOps |-> booleanOps, totalLength |-> totalLength, path |-> path,
     threw |-> FALSE]

generateDrillGeometry(p, f) ==
    LET effectiveDiameter == Max(p.diameter, MIN_DIAMETER)
        effectiveShankDiameter ==
            Min(Max(p.shankDiameter, MIN_DIAMETER), MAX_SHANK_DIAMETER)
        tipHeight == tipHeightOf(effectiveDiameter, p.tipAngle)
        flutedPartLength ==
            flutedPartLengthOf(p.fluteLength, tipHeight, effectiveDiameter)
        chamferHeight ==
            chamferHeightOf(effectiveDiameter, effectiveShankDiameter)
        totalLength ==
            totalLengthOf(p.shankLength, chamferHeight, p.nonCuttingLength,
                          flutedPartLength, tipHeight)
        \* primitives, placed end to end from -totalLength / 2
        pos0 == -totalLength
        shank == Solid("shank", effectiveShankDiameter,
                       effectiveShankDiameter, p.shankLength,
                       calculateSegments(effectiveShankDiameter, FALSE),
                       pos0 + p.shankLength)
        pos1 == pos0 + 2 * p.shankLength
        hasChamfer == chamferHeight > 0
        chamfer == Solid("chamfer", effectiveDiameter,
                         effectiveShankDiameter, chamferHeight,
                         calculateSegments(
                            Max(effectiveDiameter, effectiveShankDiameter),
                            FALSE),
                         pos1 + chamferHeight)
        pos2 == IF hasChamfer THEN pos1 + 2 * chamferHeight ELSE pos1
        hasNonCutting == p.nonCuttingLength > 0
        nonCuttingPart == Solid("nonCutting", effectiveDiameter,
                                effectiveDiameter, p.nonCuttingLength,
                                calculateSegments(effectiveDiameter, FALSE),
                                pos2 + p.nonCuttingLength)
        pos3 == IF hasNonCutting THEN pos2 + 2 * p.nonCuttingLength
                ELSE pos2
        fluteStartPosition2 == pos3
        flutedPart == Solid("flutedPart", effectiveDiameter,
                            effectiveDiameter, flutedPartLength,
                            calculateSegments(effectiveDiameter, FALSE),
                            pos3 + flutedPartLength)
        pos4 == pos3 + 2 * flutedPartLength
        tip == IF p.tipAngle # 180
               THEN Solid("tip", 0, effectiveDiameter, tipHeight,
                          calculateSegments(effectiveDiameter, FALSE),
                          pos4 + tipHeight)
               ELSE Solid("endCap", effectiveDiameter, effectiveDiameter, 0,
                          calculateSegments(effectiveDiameter, FALSE), pos4)
        geometries ==
            <<shank>> \o (IF hasChamfer THEN <<chamfer>> ELSE <<>>)
              \o (IF hasNonCutting THEN <<nonCuttingPart>> ELSE <<>>)
              \o <<flutedPart, tip>>
        primitiveCalls ==
            {"shank", "flutedPart", "tip", "mergeBody"}
              \cup (IF hasChamfer THEN {"chamfer"} ELSE {})
              \cup (IF hasNonCutting THEN {"nonCutting"} ELSE {})
        drillBody == mergeBufferGeometries(geometries)
        \* flutes
        flutes == fluteIndicesOf(p.fluteCount)
        helixPitch ==
            xdiv(xmul(Pi, Fin(effectiveDiameter)), TanOf(p.helixAngle))
        curveOf(flute) ==
            UnifiedHelixAndExtensionCurve(
                Fin(effectiveDiameter \div 2),
                Fin(((flutedPartLength + tipHeight) * 135) \div 100),
                helixPitch,
                xdiv(xmul(TwoPi, Fin(flute * Scale)),
                     Fin(p.fluteCount * Scale)),
                Fin(fluteStartPosition2),
                Fin(extensionOf(effectiveDiameter)))
        tube(flute) ==
            [type |-> "tube", flute |-> flute, fluteCount |-> p.fluteCount,
             diameter |-> effectiveDiameter,
             helixHeight |-> ((flutedPartLength + tipHeight) * 135) \div 100,
             helixAngle |-> p.helixAngle,
             curve |-> curveOf(flute),
             path |-> [i \in 1..Len(PathSamples)
                         |-> getPoint(curveOf(flute), PathSamples[i])],
             startY2 |-> fluteStartPosition2,
             extensionLength |-> extensionOf(effectiveDiameter),
             fluteDepth |-> (effectiveDiameter * 3) \div 10,
             tubularSegments |-> calculateSegments(effectiveDiameter, TRUE),
             radialSegments |-> calculateSegments(effectiveDiameter, TRUE)]
        attempted == [i \in 1..Cardinality(flutes) |-> i - 1]
        fluteGeometries ==
            [i \in 1..Len(SelectSeq(attempted, LAMBDA x : x \notin f.tubes))
               |-> tube(SelectSeq(attempted,
                                  LAMBDA x : x \notin f.tubes)[i])]
        fluteLog ==
            consoleErrorTimes(<<>>, "Error creating flute geometry",
                Len(SelectSeq(attempted, LAMBDA x : x \in f.tubes)))
        mergedFluteGeometry == mergeBufferGeometries(fluteGeometries)
        csgResult == csgSubtract(drillBody, mergedFluteGeometry)
        healed == healGeometry(csgResult)
        outerCatch(log, blank, tubes) ==
            GenResult(fallbackCylinder(effectiveDiameter, totalLength),
                      consoleError(log, "Error generating drill geometry"),
                      blank, tubes, 0, totalLength, "cylinder")
    IN  IF f.at \in primitiveCalls
        THEN outerCatch(<<>>, NoMesh, <<>>)
        ELSE IF Len(fluteGeometries) = 0
        THEN GenResult(drillBody, fluteLog, drillBody, fluteGeometries, 0,
                       totalLength, "blank")
        ELSE IF f.at = "mergeFlutes"
        THEN outerCatch(fluteLog, drillBody, fluteGeometries)
        ELSE IF f.at \in CsgThrowPoints
        THEN GenResult(drillBody,
                       consoleError(fluteLog, "Error in CSG operation"),
                       drillBody, fluteGeometries,
                       IF f.at \in {"subtract", "toMesh"} THEN 1 ELSE 0,
                       totalLength, "csgCatch")
        ELSE IF f.at = "heal"
        THEN GenResult(csgResult,
                       consoleError(fluteLog, "Error in CSG operation"),
                       drillBody, fluteGeometries, 1, totalLength,
                       "healCatch")
        ELSE GenResult(healed.geometry, fluteLog \o healed.log,
                       drillBody, fluteGeometries, 1, totalLength,
                       "fluted")

----------------------------------------------------------------------------
(* types/drill.d.ts: validateDrillParameters                               *)

\* fluteCount is a JavaScript number: `unit` is how the caller writes one
\* flute, so that a count such as 2.5 can be handed in.
validateDrillParametersIn(params, unit) ==
    IF \/ params.diameter <= 0 \/ params.length <= 0
       \/ params.shankDiameter <= 0 \/ params.shankLength <= 0
       \/ params.fluteLength <= 0
    THEN FALSE
    ELSE IF params.length < params.shankLength + params.fluteLength
                  + Abs(params.diameter - params.shankDiameter) \div 2
    THEN FALSE
    ELSE IF params.tipAngle <= 0 \/ params.tipAngle >= 180
    THEN FALSE
    ELSE IF params.helixAngle < 0 \/ params.helixAngle > 60
    THEN FALSE
    ELSE IF params.fluteCount < 1 * unit \/ params.fluteCount > 4 * unit
    THEN FALSE
    ELSE TRUE

validateDrillParameters(params) == validateDrillParametersIn(params, 1)

----------------------------------------------------------------------------
(* ParameterInput: derived quantities of the parameter panel               *)

calculateMinLength(params) ==
    LET chamferHeight == Abs(params.diameter - params.shankDiameter) \div 2
    IN  MathRound(params.fluteLength + params.shankLength + chamferHeight
                    + 3 * Scale)

\* A non-cutting length taken relative to the stored one
calculateNonCuttingLengthStale(params) ==
    LET chamferHeight == Abs(params.diameter - params.shankDiameter) \div 2
        minLength == MathRound(params.fluteLength + params.shankLength
                                 + chamferHeight + 3 * Scale)
    IN  Max(0, MathRound(params.length - minLength
                           - params.nonCuttingLength))

calculateNonCuttingLength(params) ==
    LET chamferHeight == Abs(params.diameter - params.shankDiameter) \div 2
        minLength == MathRound(params.fluteLength + params.shankLength
                                 + chamferHeight + 3 * Scale)
    IN  Max(0, MathRound(params.length - minLength))

----------------------------------------------------------------------------
(* DrillGenerator page: the parameter state it is constructed with         *)

DefaultParameters ==
    [diameter |-> 10 * Scale, length |-> 100 * Scale,
     shankDiameter |-> 10 * Scale, shankLength |-> 30 * Scale,
     fluteCount |-> 2, fluteLength |-> 60 * Scale,
     nonCuttingLength |-> 10 * Scale, tipAngle |-> 118, helixAngle |-> 30]

----------------------------------------------------------------------------
(* GenSpec: generateDrillGeometry as a function of its argument.  The      *)
(* callers hand it whatever parameter state they hold, so the argument     *)
(* ranges over a bounded set that contains the page's default state.       *)

GenDiameters == {6 * Scale, 10 * Scale}
GenShankLengths == {30 * Scale}
GenFluteLengths == {10 * Scale, 20 * Scale, 60 * Scale}
GenNonCuttingLengths == {0, 7 * Scale, 10 * Scale}
GenTipAngles == {90, 118, 180}
GenHelixAngles == {0, 30}
GenLengths == {93 * Scale, 100 * Scale}

GenInputs ==
    [diameter : GenDiameters, length : GenLengths,
     shankDiameter : GenDiameters, shankLength : GenShankLengths,
     fluteCount : 0..MaxFlutes, fluteLength : GenFluteLengths,
     nonCuttingLength : GenNonCuttingLengths, tipAngle : GenTipAngles,
     helixAngle : GenHelixAngles]

GenFaults == [at : ThrowPoints, tubes : SUBSET (0..(MaxFlutes - 1))]

NoFault == [at |-> "none", tubes |-> {}]

NotValidated == [called |-> FALSE, accepted |-> FALSE]

NotCalculated ==
    [runs |-> 0, key |-> "none", clamped |-> FALSE,
     first |-> DefaultParameters]

NotCalled ==
    [called |-> FALSE,
     result |-> GenResult(NoMesh, <<>>, NoMesh, <<>>, 0, 0, "none")]

\* No chamfer height computed yet
NoChamfer ==
    [generatorCalled |-> FALSE, generator |-> <<0, 0>>,
     panelCalled |-> FALSE, panel |-> <<0, 0>>]

\* The pure functions checked on their own have not been called.
\* Neither the viewer nor the STL exporter has built a mesh yet
NoMeshes ==
    [rendered |-> FALSE, viewport |-> NoMesh,
     exported |-> FALSE, stl |-> NoMesh]

\* An empty group of which no drawing has been made
NoViews == [edges |-> <<>>, top |-> <<>>, front |-> <<>>,
            sorted |-> <<>>, side |-> <<>>]
NoDrawing == [object |-> [children |-> <<>>], runs |-> 0,
              first |-> NoViews, second |-> NoViews]

NoPureCalls ==
    /\ chamferCalls = NoChamfer
    /\ meshCalls = NoMeshes
    /\ dxf = NoDrawing

\* DrillViewer before it is mounted: refs are null (0), nothing created.
Unmounted ==
    [mounted |-> FALSE, scene |-> FALSE, sceneMeshes |-> {},
     drillMeshRef |-> 0, created |-> 0, disposedGeometries |-> {},
     disposedMaterials |-> {}, wireframe |-> FALSE, viewMode |-> "3d",
     isLoading |-> TRUE, renderError |-> FALSE]

IdleUI ==
    /\ parameters = DefaultParameters
    /\ isModelGenerated = FALSE
    /\ isGenerating = FALSE
    /\ genTimers = 0
    /\ loadingBarTimer = TRUE
    /\ debounceTimer = [pending |-> FALSE, key |-> "none", value |-> 0]
    /\ toasts = <<>>
    /\ viewerCalls = DefaultParameters
    /\ viewerStarted = FALSE
    /\ viewer = Unmounted

\* The repository holds exportDrillModel with an "Unsupported format" default
\* case and exportDrillModel with a default case that falls back to
\* exportGenericFormat.
ExporterModules == {"throwing", "generic"}

IdleExport ==
    /\ exportFormat = "none"
    /\ exportStage = "idle"
    /\ exportPromise = "none"
    /\ callerBranch = "none"
    /\ exportCaller = "none"
    /\ downloads = {}

GenInit ==
    /\ genParams \in GenInputs
    /\ genFault \in GenFaults
    /\ genOut = NotCalled
    /\ validated = NotValidated
    /\ calc = NotCalculated
    /\ NoPureCalls
    /\ IdleUI
    /\ showToasts = TRUE
    /\ IdleExport
    /\ exportUtils = "throwing"

\* The call generateDrillGeometry(genParams), during which the calls named
\* by genFault throw.
GenerateCall ==
    /\ ~genOut.called
    /\ genOut' = [called |-> TRUE,
                  result |-> generateDrillGeometry(genParams, genFault)]
    /\ UNCHANGED <<viewer, genParams, genFault, validated, calc, pureVars,
                   uiVars, showToasts, toasts, exportVars>>

GenNext == GenerateCall

GenSpec == GenInit /\ [][GenNext]_vars

----------------------------------------------------------------------------
(* Properties of generateDrillGeometry (GenSpec)                           *)

RECURSIVE SumHeights(_)
SumHeights(parts) ==
    IF parts = <<>> THEN 0
    ELSE Head(parts).height + SumHeights(Tail(parts))

\* Height of the non-cutting cylinder in a blank, 0 if it has none.
NonCuttingBuilt(blank) ==
    LET found == SelectSeq(blank.parts, LAMBDA s : s.type = "nonCutting")
    IN  IF found = <<>> THEN 0 ELSE found[1].height

BlankBuilt == genOut.called /\ genOut.result.blank # NoMesh

\* The call asked for flutes and got the un-fluted blank back, or got the
\* plain cylinder of the outer catch.
ReturnedFallback ==
    \/ genOut.result.geometry.kind = "cylinder"
    \/ /\ fluteIndicesOf(genParams.fluteCount) # {}
       /\ genOut.result.geometry = genOut.result.blank

\* flutedPartLength as generateDrillGeometry derives it from its argument
flutedPartLengthFor(p) ==
    LET effectiveDiameter == Max(p.diameter, MIN_DIAMETER)
    IN  flutedPartLengthOf(p.fluteLength,
                           tipHeightOf(effectiveDiameter, p.tipAngle),
                           effectiveDiameter)

\* tipHeight as generateDrillGeometry derives it from its argument
tipHeightFor(p) == tipHeightOf(Max(p.diameter, MIN_DIAMETER), p.tipAngle)

\* The solid that ends a blank: geometries.push(tip) or push(endCap)
TipBuilt(blank) == blank.parts[Len(blank.parts)]

\* C22: tipHeight is 0 if and only if tipAngle is 180; at 180 the blank
\* ends in a flat end cap, at every other tip angle in a cone whose height
\* is the non-zero tipHeight.
C22_TipHeightZeroIffFlat ==
    BlankBuilt
        => /\ tipHeightFor(genParams) = 0 <=> genParams.tipAngle = 180
           /\ IF genParams.tipAngle = 180
              THEN /\ TipBuilt(genOut.result.blank).type = "endCap"
                   /\ TipBuilt(genOut.result.blank).height = 0
              ELSE /\ TipBuilt(genOut.result.blank).type = "tip"
                   /\ TipBuilt(genOut.result.blank).height # 0
                   /\ TipBuilt(genOut.result.blank).height
                        = tipHeightFor(genParams)

C22_Witness ==
    /\ BlankBuilt
    /\ genParams.tipAngle = 180
    /\ TipBuilt(genOut.result.blank).type = "endCap"
    /\ genOut.result.totalLength
          = genParams.shankLength + chamferHeightOf(genParams.diameter,
                                                    genParams.shankDiameter)
              + genParams.nonCuttingLength + flutedPartLengthFor(genParams)

\* C23: for fluteCount >= 1 a call that reaches the boolean stage runs one
\* subtraction, and its cutter is the merge of exactly fluteCount tubes,
\* one per flute, in flute order.
C23_CutterMergesAllTubes ==
    (genOut.called /\ genParams.fluteCount >= 1
       /\ genOut.result.booleanOps >= 1)
        => /\ genOut.result.booleanOps = 1
           /\ Len(genOut.result.tubes) = genParams.fluteCount
           /\ \A i \in 1..Len(genOut.result.tubes) :
                 genOut.result.tubes[i].flute = i - 1
           /\ genOut.result.geometry.kind = "csg"
                 => genOut.result.geometry.cutter = genOut.result.tubes

\* C18: no segment of a returned solid has a negative length, and an
\* argument whose flutedPartLength is negative is reported as an error and
\* no blank is built from it.
C18_FlutedPartNeverNegative ==
    genOut.called
        => /\ \A i \in 1..Len(genOut.result.geometry.parts) :
                 genOut.result.geometry.parts[i].height >= 0
           /\ flutedPartLengthFor(genParams) < 0
                 => (genOut.result.log # <<>> /\ ~BlankBuilt)

\* A point all of whose coordinates are finite numbers
Defined(point) ==
    IsFinite(point.angle) /\ IsFinite(point.offset) /\ IsFinite(point.y2)

\* C19: with helixAngle = 0 the flutes are straight: for every tube built
\* the helix pitch and the curve length are finite numbers, every point of
\* the path is defined, and the path stays at the angular position
\* baseAngle.
C19_StraightFlutesWellDefined ==
    (genOut.called /\ genParams.helixAngle = 0)
        => \A i \in 1..Len(genOut.result.tubes) :
              LET tube == genOut.result.tubes[i]
              IN  /\ IsFinite(tube.curve.helixPitch)
                  /\ IsFinite(tube.curve.totalLength)
                  /\ \A j \in 1..Len(tube.path) :
                        /\ Defined(tube.path[j])
                        /\ tube.path[j].angle = tube.curve.baseAngle
                        /\ tube.path[j].offset = Fin(0)

\* C1: for every valid parameter set, the lengths of the segments of the
\* blank (shank, chamfer, non-cutting, fluted body, tip) sum to `length`.
C1_SegmentsSumToLength ==
    (BlankBuilt /\ validateDrillParameters(genParams))
        => SumHeights(genOut.result.blank.parts) = genParams.length

\* C4: the non-cutting segment is built with the recomputed length
\* round(length - minimumLength), never with the stored nonCuttingLength.
C4_NonCuttingRecomputed ==
    (BlankBuilt /\ genParams.length >= calculateMinLength(genParams))
        => NonCuttingBuilt(genOut.result.blank)
             = MathRound(genParams.length - calculateMinLength(genParams))

\* C5: when a call of the guarded boolean stage throws (conversion,
\* subtraction, extraction or the healing in the same block), nothing is
\* raised and the un-fluted blank is returned.
C5_BooleanThrowReturnsBlank ==
    (genOut.called /\ genOut.result.path \in {"csgCatch", "healCatch"})
        => /\ ~genOut.result.threw
           /\ genOut.result.geometry = genOut.result.blank

\* C6: when the outer catch runs, nothing is raised and the result is a
\* plain cylinder of the requested `length` and `diameter`.
C6_FallbackCylinderSized ==
    (genOut.called /\ genOut.result.path = "cylinder")
        => /\ ~genOut.result.threw
           /\ genOut.result.geometry.kind = "cylinder"
           /\ genOut.result.geometry.parts[1].height = genParams.length
           /\ genOut.result.geometry.parts[1].diameterTop
                = genParams.diameter

\* C7: a call logs an error if and only if it returns a fallback.
C7_ErrorLogIffFallback ==
    genOut.called => ((genOut.result.log # <<>>) <=> ReturnedFallback)

\* C8: every geometry returned has been through healGeometry.
C8_ReturnedGeometryHealed ==
    genOut.called => Healed(genOut.result.geometry)

\* C9: with fluteCount = 0 no tube is built, no boolean operation is
\* invoked, and the geometry returned is the merged blank itself.
C9_NoFlutesReturnsBlank ==
    (genOut.called /\ genParams.fluteCount = 0)
        => /\ genOut.result.tubes = <<>>
           /\ genOut.result.booleanOps = 0
           /\ (genOut.result.blank # NoMesh
                 => genOut.result.geometry = genOut.result.blank)

C9_Witness ==
    /\ genOut.called
    /\ genParams.fluteCount = 0
    /\ genOut.result.blank # NoMesh
    /\ genOut.result.blank.kind = "merged"
    /\ genOut.result.geometry = genOut.result.blank
    /\ Len(genOut.result.blank.parts) >= 3

----------------------------------------------------------------------------
(* ParameterInput and the DrillGenerator page                              *)

Update(key, value) == [key |-> key, value |-> value]

\* DrillGenerator.handleParameterChange, once per update, in order:
\* setParameters(prev => ({ ...prev, [key]: value }))
RECURSIVE applyUpdates(_, _)
applyUpdates(params, updates) ==
    IF updates = <<>> THEN params
    ELSE applyUpdates(
            [params EXCEPT ![Head(updates).key] = Head(updates).value],
            Tail(updates))

\* What one run of a panel handler does: the updates it hands to
\* onParameterChange at once, those it hands to debouncedParameterChange,
\* and the toasts it shows.
Handled(updates, debounced, shown) ==
    [updates |-> updates, debounced |-> debounced, toasts |-> shown]

LengthRelatedKeys ==
    {"shankLength", "fluteLength", "diameter", "shankDiameter", "tipAngle"}

\* ParameterInput.handleParameterChange for a number
handleNumberChange(params, key, value, show) ==
    IF value < 0
    THEN Handled(<<Update(key, 0)>>, <<>>, <<>>)
    ELSE IF key \in LengthRelatedKeys
    THEN LET updatedParams == [params EXCEPT ![key] = value]
             newMinLength == calculateMinLength(updatedParams)
         IN  IF updatedParams.length < newMinLength
             THEN Handled(<<Update("length", newMinLength),
                            Update("nonCuttingLength", 0),
                            Update(key, value)>>,
                          <<>>,
                          IF show THEN <<"warning:length adjusted">>
                          ELSE <<>>)
             ELSE Handled(<<Update("nonCuttingLength",
                               calculateNonCuttingLength(updatedParams)),
                            Update(key, value)>>,
                          <<>>, <<>>)
    ELSE IF key = "length"
    THEN LET newMinLength == calculateMinLength(params)
         IN  IF value < newMinLength
             THEN Handled(<<Update("length", value),
                            Update("length", newMinLength),
                            Update("nonCuttingLength", 0)>>,
                          <<>>,
                          IF show THEN <<"error:length below minimum">>
                          ELSE <<>>)
             ELSE Handled(<<Update("length", value),
                            Update("nonCuttingLength",
                               calculateNonCuttingLength(
                                  [params EXCEPT !.length = value]))>>,
                          <<>>, <<>>)
    ELSE Handled(<<>>, <<Update(key, value)>>, <<>>)

\* Text of a number input: empty, or a number that parseFloat reads.
EmptyText == [empty |-> TRUE, num |-> 0]
Typed(n) == [empty |-> FALSE, num |-> n]

\* ParameterInput.handleParameterChange for the text of an input
handleParameterChange(params, key, text, show) ==
    IF text.empty
    THEN Handled(<<Update(key, 0)>>, <<>>, <<>>)
    ELSE handleNumberChange(params, key, text.num, show)

\* onChange of the overall-length input
lengthOnChange(params, text, show) ==
    handleNumberChange(params, "length",
                       IF text.empty THEN 0 ELSE text.num, show)

\* onBlur of the overall-length input; the input shows params.length.
lengthOnBlur(params, show) ==
    LET value == params.length
        minLength == calculateMinLength(params)
        first == handleNumberChange(params, "length", minLength, show)
        second == handleNumberChange(params, "nonCuttingLength", 0, show)
        other == handleNumberChange(params, "nonCuttingLength",
                                    value - minLength, show)
    IN  IF value < minLength
        THEN Handled(first.updates \o second.updates,
                     first.debounced \o second.debounced,
                     <<"error:length below minimum">> \o first.toasts
                        \o second.toasts)
        ELSE other

FieldKeys == {"diameter", "shankDiameter", "shankLength", "fluteLength",
              "tipAngle", "helixAngle"}

\* What the model types into each field.
TypedTexts(key) ==
    CASE key = "diameter"      -> {EmptyText, Typed(10 * Scale)}
      [] key = "shankDiameter" -> {Typed(10 * Scale)}
      [] key = "shankLength"   -> {Typed(30 * Scale), Typed(40 * Scale)}
      [] key = "fluteLength"   -> {Typed(60 * Scale), Typed(70 * Scale)}
      [] key = "tipAngle"      -> {Typed(118)}
      [] key = "helixAngle"    -> {EmptyText, Typed(30)}
      [] key = "length"        -> {EmptyText, Typed(-5 * Scale),
                                   Typed(120 * Scale)}

NoTimer == [pending |-> FALSE, key |-> "none", value |-> 0]

\* The state changes a handler run causes: the page's parameter state, the
\* debounce timer (each debounced call replaces the pending one), and the
\* render that follows, in which a mounted viewer regenerates the drill
\* from the new parameter state and LoadingBar re-arms its timer.
Commit(r, timer) ==
    /\ parameters' = applyUpdates(parameters, r.updates)
    /\ debounceTimer' =
          IF r.debounced = <<>> THEN timer
          ELSE [pending |-> TRUE,
                key |-> r.debounced[Len(r.debounced)].key,
                value |-> r.debounced[Len(r.debounced)].value]
    /\ toasts' = r.toasts
    /\ IF isModelGenerated /\ r.updates # <<>>
       THEN viewerCalls' = parameters' /\ viewerStarted' = TRUE
       ELSE UNCHANGED <<viewerCalls, viewerStarted>>
    /\ loadingBarTimer' =
          IF r.updates # <<>> THEN ~isGenerating ELSE loadingBarTimer
    /\ UNCHANGED <<viewer, isModelGenerated, isGenerating, genTimers, showToasts,
                   genVars, exportVars>>

EditField(key, text) ==
    Commit(handleParameterChange(parameters, key, text, showToasts),
           debounceTimer)

EditLength(text) ==
    Commit(lengthOnChange(parameters, text, showToasts), debounceTimer)

BlurLength ==
    Commit(lengthOnBlur(parameters, showToasts), debounceTimer)

\* The flute-count select calls onParameterChange directly.
SelectFluteCount(n) ==
    Commit(Handled(<<Update("fluteCount", n)>>, <<>>, <<>>), debounceTimer)

\* The 100 ms debounce timer fires.
DebounceFire ==
    /\ debounceTimer.pending
    /\ Commit(Handled(<<Update(debounceTimer.key, debounceTimer.value)>>,
                      <<>>, <<>>),
              NoTimer)

\* DrillGenerator.handleReset; the Reset button is disabled while
\* generating.  The viewer is unmounted with isModelGenerated.
Reset ==
    /\ ~isGenerating
    /\ parameters' = DefaultParameters
    /\ isModelGenerated' = FALSE
    /\ viewerStarted' = FALSE
    /\ viewerCalls' = DefaultParameters
    /\ loadingBarTimer' = TRUE
    /\ toasts' = <<>>
    /\ UNCHANGED <<viewer, isGenerating, genTimers, debounceTimer, showToasts,
                   genVars, exportVars>>

\* A Generate button that stays enabled
generateButtonAlwaysEnabled == FALSE

\* <Button onClick={onGenerateModel} disabled={isGenerating}>
generateButtonDisabled == isGenerating

\* DrillGenerator.handleGenerateModel; the Generate button is disabled
\* while generating.  LoadingBar's effect cleanup clears its timer.
Generate ==
    /\ ~generateButtonDisabled
    /\ genTimers < MaxGenTimers
    /\ isGenerating' = TRUE
    /\ genTimers' = genTimers + 1
    /\ loadingBarTimer' = FALSE
    /\ toasts' = <<>>
    /\ UNCHANGED <<viewer, parameters, isModelGenerated, debounceTimer, showToasts,
                   viewerCalls, viewerStarted, genVars, exportVars>>

\* A timeout callback without its finally block: isGenerating stays set
GenerateTimeoutNoFinally ==
    /\ genTimers > 0
    /\ genTimers' = genTimers - 1
    /\ isModelGenerated' = TRUE
    /\ toasts' = IF showToasts THEN <<"generated">> ELSE <<>>
    /\ IF ~isModelGenerated
       THEN viewerCalls' = parameters /\ viewerStarted' = TRUE
       ELSE UNCHANGED <<viewerCalls, viewerStarted>>
    /\ UNCHANGED <<viewer, parameters, isGenerating, loadingBarTimer,
                   debounceTimer, showToasts, genVars, exportVars>>

\* The 30 s timeout of handleGenerateModel; the viewer is mounted when
\* isModelGenerated becomes true and generates the drill.
GenerateTimeout ==
    /\ genTimers > 0
    /\ genTimers' = genTimers - 1
    /\ isModelGenerated' = TRUE
    /\ isGenerating' = FALSE
    /\ toasts' = IF showToasts THEN <<"generated">> ELSE <<>>
    /\ IF ~isModelGenerated
       THEN viewerCalls' = parameters /\ viewerStarted' = TRUE
       ELSE UNCHANGED <<viewerCalls, viewerStarted>>
    /\ loadingBarTimer' = TRUE
    /\ UNCHANGED <<viewer, parameters, debounceTimer, showToasts, genVars,
                   exportVars>>

\* LoadingBar's 500 ms timeout: onComplete = () => setIsGenerating(false)
LoadingBarComplete ==
    /\ loadingBarTimer
    /\ loadingBarTimer' = FALSE
    /\ isGenerating' = FALSE
    /\ toasts' = <<>>
    /\ UNCHANGED <<viewer, parameters, isModelGenerated, genTimers, debounceTimer,
                   showToasts, viewerCalls, viewerStarted, genVars,
                   exportVars>>

Init ==
    /\ genParams = DefaultParameters
    /\ genFault = NoFault
    /\ genOut = NotCalled
    /\ validated = NotValidated
    /\ calc = NotCalculated
    /\ NoPureCalls
    /\ IdleUI
    /\ showToasts \in BOOLEAN
    /\ IdleExport
    /\ exportUtils = "throwing"

Next ==
    \/ \E key \in FieldKeys : \E text \in TypedTexts(key) :
          EditField(key, text)
    \/ \E text \in TypedTexts("length") : EditLength(text)
    \/ BlurLength
    \/ \E n \in 1..MaxFlutes : SelectFluteCount(n)
    \/ DebounceFire
    \/ Reset
    \/ Generate
    \/ GenerateTimeout
    \/ LoadingBarComplete

Spec == Init /\ [][Next]_vars

\* C2: generateDrillGeometry is never started for a parameter set that
\* fails validation.
C2_OnlyValidatedParametersGenerated ==
    viewerStarted => validateDrillParameters(viewerCalls)

\* A keystroke in one of the numeric fields of the panel
Keystroke ==
    \/ \E key \in FieldKeys : \E text \in TypedTexts(key) :
          EditField(key, text)
    \/ \E text \in TypedTexts("length") : EditLength(text)

\* C14: edits are debounced: no keystroke regenerates the geometry by
\* itself; the regeneration of a burst happens when the debounce timer
\* fires after it.
C14_KeystrokesAreDebounced ==
    [][Keystroke => viewerCalls' = viewerCalls]_vars

\* C13: at most one generation is pending at any time, and one is pending
\* exactly while isGenerating is true, so that no user action starts a
\* second one.
C13_AtMostOneGeneration ==
    /\ genTimers <= 1
    /\ genTimers = 1 <=> isGenerating

C13_Witness ==
    /\ isGenerating
    /\ genTimers = 1
    /\ isModelGenerated
    /\ parameters # DefaultParameters

\* C30: with showToasts false no toast is shown to the user by a parameter
\* edit, a blur validation or a generation.
C30_NoToastWhenDisabled ==
    ~showToasts => toasts = <<>>

\* The conditions under which handleParameterChange(key, value) raises
\* length to the minimum and zeroes nonCuttingLength
AutoClamps(params, key, value) ==
    /\ value >= 0
    /\ \/ /\ key \in LengthRelatedKeys
          /\ [params EXCEPT ![key] = value].length
                < calculateMinLength([params EXCEPT ![key] = value])
       \/ /\ key = "length"
          /\ value < calculateMinLength(params)

\* A step of the panel in which the automatic clamp runs
ClampingEdit ==
    \/ \E key \in FieldKeys : \E text \in TypedTexts(key) :
          /\ ~text.empty
          /\ AutoClamps(parameters, key, text.num)
          /\ EditField(key, text)
    \/ \E text \in TypedTexts("length") :
          /\ AutoClamps(parameters, "length",
                        IF text.empty THEN 0 ELSE text.num)
          /\ EditLength(text)
    \/ /\ AutoClamps(parameters, "length",
                     calculateMinLength(parameters) - 1)
       /\ parameters.length < calculateMinLength(parameters)
       /\ BlurLength

WarningShown(shown) ==
    \E i \in 1..Len(shown) : shown[i] = "warning:length adjusted"

\* C24: every automatic clamp is surfaced: the step that raises length to
\* the minimum and zeroes nonCuttingLength emits a warning-level notice.
C24_ClampEmitsWarning ==
    [][ClampingEdit => WarningShown(toasts')]_vars

\* C3: after any sequence of edits and Reset the stored length is at least
\* the minimum length.
C3_LengthAtLeastMinimum ==
    parameters.length >= calculateMinLength(parameters)

----------------------------------------------------------------------------
(* Export: exportDrillModel and its callers                                *)

\* The cases of exportDrillModel's switch
SupportedFormats ==
    IF exportUtils = "generic" THEN {"stl", "dxf", "step"}
    ELSE {"stl", "dxf"}

\* The formats the export dialog offers, and those of the page's buttons
DialogFormats == {"dwg", "dxf", "jscad", "stl", "step", "pdf", "json", "csv"}
PageFormats == {"stl", "dxf"}

\* showToasts as exportDrillModel sees it: the page passes its setting,
\* the dialog's handleExportConfirm leaves the parameter at its default.
exportShowToasts == IF exportCaller = "dialog" THEN TRUE ELSE showToasts

\* ExportDialog.handleExport: awaits onExport, which starts exportDrillModel
\* without returning its promise; the dialog then logs success and closes.
DialogExport(format) ==
    /\ exportStage \in {"idle", "settled"}
    /\ exportCaller' = "dialog"
    /\ exportFormat' = format
    /\ exportStage' = "delay"
    /\ exportPromise' = "pending"
    /\ callerBranch' = "success"
    /\ toasts' = <<"loading">>
    /\ UNCHANGED <<viewer, exportUtils, downloads, uiVars, showToasts, genVars>>

\* DrillGenerator.handleExport: schedules the export 5 s ahead.
PageExport(format) ==
    /\ exportStage \in {"idle", "settled"}
    /\ exportCaller' = "page"
    /\ exportFormat' = format
    /\ exportStage' = "pageTimer"
    /\ exportPromise' = "none"
    /\ callerBranch' = "none"
    /\ toasts' = <<>>
    /\ UNCHANGED <<viewer, exportUtils, downloads, uiVars, showToasts, genVars>>

\* The page's timeout: await exportDrillModel(...)
PageExportTimer ==
    /\ exportStage = "pageTimer"
    /\ exportStage' = "delay"
    /\ exportPromise' = "pending"
    /\ callerBranch' = "awaiting"
    /\ toasts' = IF showToasts THEN <<"loading">> ELSE <<>>
    /\ UNCHANGED <<viewer, exportFormat, exportCaller, exportUtils, downloads,
                   uiVars, showToasts, genVars>>

\* exportDrillModel's promise settles as `outcome`, after it emitted
\* `shown`; a caller awaiting it goes on: the page reports success when the
\* promise resolves and has no handler for a rejection.
SettleExport(outcome, shown) ==
    /\ exportStage' = "settled"
    /\ exportPromise' = outcome
    /\ callerBranch' =
          IF callerBranch # "awaiting" THEN callerBranch
          ELSE IF outcome = "resolved" THEN "success" ELSE "unhandled"
    /\ toasts' =
          shown \o (IF callerBranch = "awaiting" /\ outcome = "resolved"
                       /\ showToasts
                    THEN <<"exported">> ELSE <<>>)

\* exportDrillModel after its 500 ms delay: the switch on the format.  An
\* exporter (exportGenericFormat of the default case included) either
\* appends its download link or throws; every throw, the one for an
\* unsupported format included, is caught inside exportDrillModel, reported
\* by toast, and the promise resolves.
ExportDelayElapsed(throws) ==
    /\ exportStage = "delay"
    /\ IF (exportFormat \in SupportedFormats \/ exportUtils = "generic")
          /\ ~throws
       THEN /\ exportStage' = "linkReady"
            /\ toasts' = <<>>
            /\ UNCHANGED <<exportPromise, callerBranch>>
       ELSE SettleExport("resolved",
                         IF exportShowToasts THEN <<"error:export failed">>
                         ELSE <<>>)
    /\ UNCHANGED <<viewer, exportFormat, exportCaller, exportUtils, downloads,
                   uiVars, showToasts, genVars>>

\* The exporter's first timeout: link.click()
ExportLinkClick ==
    /\ exportStage = "linkReady"
    /\ exportStage' = "cleanup"
    /\ downloads' = downloads \cup {exportFormat}
    /\ toasts' = <<>>
    /\ UNCHANGED <<viewer, exportFormat, exportPromise, callerBranch, exportCaller,
                   exportUtils, uiVars, showToasts, genVars>>

\* The exporter's second timeout: resolve(); exportDrillModel reports
\* success and returns.
ExportCleanup ==
    /\ exportStage = "cleanup"
    /\ SettleExport("resolved",
                    IF exportShowToasts THEN <<"success:exported">>
                    ELSE <<>>)
    /\ UNCHANGED <<viewer, exportFormat, exportCaller, exportUtils, downloads,
                   uiVars, showToasts, genVars>>

ExportInit ==
    /\ genParams = DefaultParameters
    /\ genFault = NoFault
    /\ genOut = NotCalled
    /\ validated = NotValidated
    /\ calc = NotCalculated
    /\ NoPureCalls
    /\ IdleUI
    /\ showToasts \in BOOLEAN
    /\ IdleExport
    /\ exportUtils \in ExporterModules

ExportNext ==
    \/ \E format \in DialogFormats : DialogExport(format)
    \/ \E format \in PageFormats : PageExport(format)
    \/ PageExportTimer
    \/ \E throws \in BOOLEAN : ExportDelayElapsed(throws)
    \/ ExportLinkClick
    \/ ExportCleanup

ExportSpec == ExportInit /\ [][ExportNext]_vars

\* C10: an export in an unsupported format is reported to the caller as a
\* rejected operation: the promise of exportDrillModel rejects, the
\* caller's failure branch runs, and no caller reports success.
C10_UnsupportedFormatRejected ==
    (exportCaller # "none" /\ exportFormat \notin SupportedFormats)
        => /\ callerBranch # "success"
           /\ exportStage = "settled"
                 => (exportPromise = "rejected" /\ callerBranch = "failure")

\* C11: for an export request in an unsupported format no download is
\* triggered and no file is written.
C11_UnsupportedFormatNoDownload ==
    (exportCaller # "none" /\ exportFormat \notin SupportedFormats)
        => exportFormat \notin downloads

----------------------------------------------------------------------------
(* ViewerSpec: DrillViewer as a component driven by its props               *)

MaxMeshes == 4

\* Parameter sets the page hands to the viewer
ViewerParameterSets ==
    {DefaultParameters,
     [DefaultParameters EXCEPT !.diameter = 6 * Scale],
     [DefaultParameters EXCEPT !.fluteCount = 1]}

\* The cleanup that forgets scene.remove(drillMeshRef.current)
cleanUpOldDrillModelKeepsMesh(v) ==
    IF v.drillMeshRef # 0 /\ v.scene
    THEN [v EXCEPT !.disposedGeometries = @ \cup {v.drillMeshRef},
                   !.disposedMaterials = @ \cup {v.drillMeshRef}]
    ELSE v

\* "Clean up old drill model": remove the mesh drillMeshRef points at from
\* the scene and dispose its geometry and its material.
cleanUpOldDrillModel(v) ==
    IF v.drillMeshRef # 0 /\ v.scene
    THEN [v EXCEPT !.sceneMeshes = @ \ {v.drillMeshRef},
                   !.disposedGeometries = @ \cup {v.drillMeshRef},
                   !.disposedMaterials = @ \cup {v.drillMeshRef}]
    ELSE v

\* The effect on [parameters, viewMode, wireframe].  Without a scene it
\* returns at once.  Otherwise it cleans up, generates, and adds the new
\* mesh; a throw after the cleanup (generation, material or mesh
\* construction) lands in the catch, which adds nothing and leaves
\* drillMeshRef on the disposed mesh.
updateDrillModel(v, throws) ==
    IF ~v.scene THEN v
    ELSE LET c == cleanUpOldDrillModel(v)
         IN  IF throws
             THEN [c EXCEPT !.renderError = TRUE, !.isLoading = FALSE]
             ELSE [c EXCEPT !.sceneMeshes = @ \cup {c.created + 1},
                            !.drillMeshRef = c.created + 1,
                            !.created = c.created + 1,
                            !.isLoading = TRUE]

\* Mount: the set-up effect creates the scene unless WebGL is missing, then
\* the update effect runs for the first time.
ViewerMount(p, webgl, throws) ==
    /\ ~viewer.mounted
    /\ viewer' = updateDrillModel(
                    [viewer EXCEPT !.mounted = TRUE, !.scene = webgl,
                                   !.renderError = ~webgl],
                    throws)
    /\ viewerCalls' = IF webgl THEN p ELSE viewerCalls
    /\ viewerStarted' = webgl
    /\ parameters' = p
    /\ UNCHANGED <<isModelGenerated, isGenerating, genTimers,
                   loadingBarTimer, debounceTimer, showToasts, toasts,
                   genVars, exportVars>>

\* A render with a changed dependency: new parameters, or the wireframe or
\* view mode toggled.
ViewerPropsChange(p, wireframe, viewMode, throws) ==
    /\ viewer.mounted
    /\ viewer.created < MaxMeshes
    /\ <<p, wireframe, viewMode>>
          # <<parameters, viewer.wireframe, viewer.viewMode>>
    /\ viewer' = updateDrillModel(
                    [viewer EXCEPT !.wireframe = wireframe,
                                   !.viewMode = viewMode],
                    throws)
    /\ viewerCalls' = IF viewer.scene THEN p ELSE viewerCalls
    /\ parameters' = p
    /\ UNCHANGED <<viewerStarted, isModelGenerated, isGenerating, genTimers,
                   loadingBarTimer, debounceTimer, showToasts, toasts,
                   genVars, exportVars>>

\* The 100 ms timeout that fits the view and ends the loading state.
ViewerFitTimeout ==
    /\ viewer.mounted
    /\ viewer.isLoading
    /\ viewer' = [viewer EXCEPT !.isLoading = FALSE]
    /\ UNCHANGED <<parameters, viewerCalls, viewerStarted, isModelGenerated,
                   isGenerating, genTimers, loadingBarTimer, debounceTimer,
                   showToasts, toasts, genVars, exportVars>>

ViewerInit ==
    /\ genParams = DefaultParameters
    /\ genFault = NoFault
    /\ genOut = NotCalled
    /\ validated = NotValidated
    /\ calc = NotCalculated
    /\ NoPureCalls
    /\ IdleUI
    /\ showToasts = TRUE
    /\ IdleExport
    /\ exportUtils = "throwing"

ViewerNext ==
    \/ \E p \in ViewerParameterSets : \E webgl, throws \in BOOLEAN :
          ViewerMount(p, webgl, throws)
    \/ \E p \in ViewerParameterSets : \E wireframe, throws \in BOOLEAN :
          \E viewMode \in {"3d", "2d"} :
             ViewerPropsChange(p, wireframe, viewMode, throws)
    \/ ViewerFitTimeout

ViewerSpec == ViewerInit /\ [][ViewerNext]_vars

\* Meshes the viewer has created and that are no longer the scene's
Replaced == (1..viewer.created) \ viewer.sceneMeshes

\* C12: after any sequence of viewer updates the scene holds at most one
\* drill mesh, and every mesh that was replaced has had its geometry and
\* its material disposed; the mesh in the scene is the newest one.
C12_OneMeshOldDisposed ==
    /\ Cardinality(viewer.sceneMeshes) <= 1
    /\ viewer.sceneMeshes \subseteq {viewer.created}
    /\ Replaced \subseteq viewer.disposedGeometries
    /\ Replaced \subseteq viewer.disposedMaterials

C12_Witness ==
    /\ viewer.created >= 3
    /\ viewer.sceneMeshes = {viewer.created}
    /\ viewer.disposedGeometries = 1..(viewer.created - 1)

----------------------------------------------------------------------------
(* ValidateSpec: validateDrillParameters as a function of its argument     *)

\* One flute, written in halves, so that 2.5 flutes is the integer 5
FluteUnit == 1 + 1

ValidateLengths ==
    {0, 90 * Scale, 92 * Scale, 93 * Scale, 95 * Scale, 100 * Scale}
ValidateDiameters == {0, 6 * Scale, 10 * Scale}
ValidateShankDiameters == {6 * Scale, 10 * Scale}
ValidateTipAngles == {-10, 0, 90, 179, 180, 181}
ValidateHelixAngles == {0, 30, 60, 61}
ValidateFluteCounts ==
    {-1 * FluteUnit, 0, 1 * FluteUnit, 5, 4 * FluteUnit, 9, 5 * FluteUnit}

ValidateInputs ==
    [diameter : ValidateDiameters, length : ValidateLengths,
     shankDiameter : ValidateShankDiameters, shankLength : {30 * Scale},
     fluteCount : ValidateFluteCounts, fluteLength : {60 * Scale},
     nonCuttingLength : {0}, tipAngle : ValidateTipAngles,
     helixAngle : ValidateHelixAngles]

ValidateInit ==
    /\ genParams \in ValidateInputs
    /\ genFault = NoFault
    /\ genOut = NotCalled
    /\ validated = NotValidated
    /\ calc = NotCalculated
    /\ NoPureCalls
    /\ IdleUI
    /\ showToasts = TRUE
    /\ IdleExport
    /\ exportUtils = "throwing"

\* The call validateDrillParameters(genParams)
ValidateCall ==
    /\ ~validated.called
    /\ validated' =
          [called |-> TRUE,
           accepted |-> validateDrillParametersIn(genParams, FluteUnit)]
    /\ UNCHANGED <<viewer, genParams, genFault, genOut, calc, pureVars,
                   uiVars, showToasts, toasts, exportVars>>

ValidateNext == ValidateCall

ValidateSpec == ValidateInit /\ [][ValidateNext]_vars

Accepted == validated.called /\ validated.accepted
Rejected == validated.called /\ ~validated.accepted

\* C15: every parameter set that validation accepts has
\* length >= shankLength + fluteLength + chamferHeight + 3 mm.
C15_AcceptedLengthHasBuffer ==
    Accepted
        => genParams.length
             >= genParams.shankLength + genParams.fluteLength
                  + Abs(genParams.diameter - genParams.shankDiameter) \div 2
                  + 3 * Scale

\* Every check of validateDrillParameters other than the one on tipAngle
\* passes for the argument.
OtherThanTipAnglePasses ==
    validateDrillParametersIn([genParams EXCEPT !.tipAngle = 90], FluteUnit)

\* C16: validation accepts exactly the tip angles in (0,180]: on an
\* argument that is otherwise valid it returns true if and only if
\* 0 < tipAngle <= 180.
C16_TipAngleUpTo180Accepted ==
    (validated.called /\ OtherThanTipAnglePasses)
        => (validated.accepted
              <=> (genParams.tipAngle > 0 /\ genParams.tipAngle <= 180))

\* The flute counts 1, 2, 3 and 4
WholeFluteCounts == {n * FluteUnit : n \in 1..4}

\* C17: validation rejects every parameter set whose fluteCount is not an
\* integer in [1,4], whatever the other parameters are.
C17_FluteCountOutsideRejected ==
    (validated.called /\ genParams.fluteCount \notin WholeFluteCounts)
        => ~validated.accepted

----------------------------------------------------------------------------
(* ClampSpec: the length calculation of handleParameterChange, run on a    *)
(* parameter state and then on its own output                              *)

ClampKeys == {"length", "diameter", "shankDiameter", "shankLength",
              "fluteLength"}

ClampInputs ==
    [diameter : {6 * Scale, 10 * Scale}, length : {0, 93 * Scale,
                                                   100 * Scale},
     shankDiameter : {6 * Scale, 10 * Scale},
     shankLength : {30 * Scale, 40 * Scale}, fluteCount : {2},
     fluteLength : {60 * Scale}, nonCuttingLength : {0, 10 * Scale},
     tipAngle : {118}, helixAngle : {30}]

\* Values a field is set to; 93.5 mm is not a whole number of millimetres.
ClampValues(key) ==
    CASE key = "length" -> {0, 50 * Scale, 93 * Scale + Scale \div 2,
                            120 * Scale}
      [] key = "diameter" -> {0, 6 * Scale, 10 * Scale}
      [] key = "shankDiameter" -> {6 * Scale, 10 * Scale}
      [] key = "shankLength" -> {30 * Scale, 45 * Scale}
      [] key = "fluteLength" -> {60 * Scale, 80 * Scale}

\* The parameter state after handleParameterChange(key, value)
calculated(params, key, value) ==
    applyUpdates(params,
                 handleNumberChange(params, key, value, FALSE).updates)

ClampInit ==
    /\ genParams = DefaultParameters
    /\ genFault = NoFault
    /\ genOut = NotCalled
    /\ validated = NotValidated
    /\ calc = NotCalculated
    /\ NoPureCalls
    /\ parameters \in ClampInputs
    /\ isModelGenerated = FALSE
    /\ isGenerating = FALSE
    /\ genTimers = 0
    /\ loadingBarTimer = TRUE
    /\ debounceTimer = NoTimer
    /\ toasts = <<>>
    /\ viewerCalls = DefaultParameters
    /\ viewerStarted = FALSE
    /\ viewer = Unmounted
    /\ showToasts = FALSE
    /\ IdleExport
    /\ exportUtils = "throwing"

\* The calculation runs for an edit of `key` to `value`.
CalculateFirst(key, value) ==
    /\ calc.runs = 0
    /\ parameters' = calculated(parameters, key, value)
    /\ calc' = [runs |-> 1, key |-> key,
                clamped |-> [parameters EXCEPT ![key] = value].length
                              < calculateMinLength(
                                   [parameters EXCEPT ![key] = value]),
                first |-> parameters']
    /\ UNCHANGED <<viewer, genParams, genFault, genOut, validated,
                   pureVars, isModelGenerated, isGenerating, genTimers,
                   loadingBarTimer, debounceTimer, viewerCalls,
                   viewerStarted, showToasts, toasts, exportVars>>

\* The calculation runs again with its output as the new input.
CalculateAgain ==
    /\ calc.runs = 1
    /\ parameters' = calculated(parameters, calc.key, parameters[calc.key])
    /\ calc' = [calc EXCEPT !.runs = 2]
    /\ UNCHANGED <<viewer, genParams, genFault, genOut, validated,
                   pureVars, isModelGenerated, isGenerating, genTimers,
                   loadingBarTimer, debounceTimer, viewerCalls,
                   viewerStarted, showToasts, toasts, exportVars>>

ClampNext ==
    \/ \E key \in ClampKeys : \E value \in ClampValues(key) :
          CalculateFirst(key, value)
    \/ CalculateAgain

ClampSpec == ClampInit /\ [][ClampNext]_vars

\* C20: the clamp is idempotent: running the calculation on its own
\* output changes neither length, nor the minimum length, nor
\* nonCuttingLength.
C20_ClampIdempotent ==
    calc.runs = 2
        => /\ parameters.length = calc.first.length
           /\ parameters.nonCuttingLength = calc.first.nonCuttingLength
           /\ calculateMinLength(parameters) = calculateMinLength(calc.first)

C20_Witness ==
    /\ calc.runs = 2
    /\ calc.clamped
    /\ parameters.length = calculateMinLength(parameters)
    /\ parameters.nonCuttingLength = 0

----------------------------------------------------------------------------
(* ChamferSpec: the chamferCalls height of the generator and of the panel, each  *)
(* computed for a parameter set and for the same set with its two          *)
(* diameters exchanged                                                     *)

\* 0.05 mm lies below MIN_DIAMETER, 40 mm above MAX_SHANK_DIAMETER.
ChamferDiameters ==
    {5, 6 * Scale, 10 * Scale, 20 * Scale, 32 * Scale, 40 * Scale}

ChamferInputs ==
    {[DefaultParameters EXCEPT !.diameter = d1, !.shankDiameter = d2] :
        d1 \in ChamferDiameters, d2 \in ChamferDiameters}

\* The parameter set with diameter and shankDiameter exchanged
swapDiameters(p) ==
    [p EXCEPT !.diameter = p.shankDiameter, !.shankDiameter = p.diameter]

\* chamferHeight as generateDrillGeometry derives it from its argument
chamferHeightFor(p) ==
    LET effectiveDiameter == Max(p.diameter, MIN_DIAMETER)
        effectiveShankDiameter ==
            Min(Max(p.shankDiameter, MIN_DIAMETER), MAX_SHANK_DIAMETER)
    IN  chamferHeightOf(effectiveDiameter, effectiveShankDiameter)

\* chamferHeight of the panel's calculateMinLength
panelChamferHeight(params) ==
    Abs(params.diameter - params.shankDiameter) \div 2

ChamferInit ==
    /\ genParams \in ChamferInputs
    /\ genFault = NoFault
    /\ genOut = NotCalled
    /\ validated = NotValidated
    /\ calc = NotCalculated
    /\ NoPureCalls
    /\ IdleUI
    /\ showToasts = TRUE
    /\ IdleExport
    /\ exportUtils = "throwing"

\* The generator computes chamferHeight for genParams and for the swap.
GeneratorChamfer ==
    /\ ~chamferCalls.generatorCalled
    /\ chamferCalls' =
          [chamferCalls EXCEPT
              !.generatorCalled = TRUE,
              !.generator = <<chamferHeightFor(genParams),
                              chamferHeightFor(swapDiameters(genParams))>>]
    /\ UNCHANGED <<viewer, genParams, genFault, genOut, validated, calc,
                   meshCalls, dxf, uiVars, showToasts, toasts, exportVars>>

\* The panel computes chamferHeight for genParams and for the swap.
PanelChamfer ==
    /\ ~chamferCalls.panelCalled
    /\ chamferCalls' =
          [chamferCalls EXCEPT
              !.panelCalled = TRUE,
              !.panel = <<panelChamferHeight(genParams),
                          panelChamferHeight(swapDiameters(genParams))>>]
    /\ UNCHANGED <<viewer, genParams, genFault, genOut, validated, calc,
                   meshCalls, dxf, uiVars, showToasts, toasts, exportVars>>

ChamferNext == GeneratorChamfer \/ PanelChamfer

ChamferSpec == ChamferInit /\ [][ChamferNext]_vars

\* C21: chamferHeight is symmetric in its two diameters, in the generator
\* and in the panel: exchanging diameter and shankDiameter leaves the
\* computed chamferCalls height unchanged.
C21_ChamferSymmetric ==
    /\ chamferCalls.generatorCalled
          => chamferCalls.generator[1] = chamferCalls.generator[2]
    /\ chamferCalls.panelCalled => chamferCalls.panel[1] = chamferCalls.panel[2]

----------------------------------------------------------------------------
(* MeshSpec: the mesh DrillViewer renders and the mesh exportDrillToSTL    *)
(* hands to STLExporter, both for the parameter set genParams.  The        *)
(* library calls are deterministic: a call that throws on given arguments  *)
(* throws on them in the viewer and in the exporter alike (genFault).      *)

MeshInputs ==
    [diameter : GenDiameters, length : {100 * Scale},
     shankDiameter : GenDiameters, shankLength : GenShankLengths,
     fluteCount : 0..MaxFlutes, fluteLength : {60 * Scale},
     nonCuttingLength : {0, 10 * Scale}, tipAngle : GenTipAngles,
     helixAngle : {30}]

\* position.count of a primitive: CylinderGeometry and ConeGeometry have a
\* torso of two rings and a cap at each end of non-zero radius,
\* CircleGeometry a centre and one ring.
verticesOf(solid) ==
    IF solid.type = "endCap" THEN solid.radialSegments + 2
    ELSE 2 * (solid.radialSegments + 1)
           + (IF solid.diameterTop > 0
              THEN 2 * solid.radialSegments + 1 ELSE 0)
           + (IF solid.diameterBottom > 0
              THEN 2 * solid.radialSegments + 1 ELSE 0)

RECURSIVE SumVertices(_)
SumVertices(parts) ==
    IF parts = <<>> THEN 0
    ELSE verticesOf(Head(parts)) + SumVertices(Tail(parts))

RECURSIVE MaxDiameter(_)
MaxDiameter(parts) ==
    IF parts = <<>> THEN 0
    ELSE Max(Max(Head(parts).diameterTop, Head(parts).diameterBottom),
             MaxDiameter(Tail(parts)))

\* The number of vertices of a geometry.  For the result of a subtraction
\* it is a function of the two operands, which stand for it.
vertexCount(geometry) ==
    IF geometry.cutter = <<>>
    THEN [count |-> SumVertices(geometry.parts), csgOf |-> <<>>]
    ELSE [count |-> 0, csgOf |-> <<geometry.parts, geometry.cutter>>]

\* The bounding box of a geometry: the doubled axial extent and the
\* largest diameter of its solids; for the result of a subtraction again
\* a function of the two operands.
boundingBox(geometry) ==
    IF geometry.cutter = <<>>
    THEN [minY2 |-> IF geometry.parts = <<>> THEN 0
                    ELSE Head(geometry.parts).centre2
                           - Head(geometry.parts).height,
          maxY2 |-> IF geometry.parts = <<>> THEN 0
                    ELSE geometry.parts[Len(geometry.parts)].centre2
                           + geometry.parts[Len(geometry.parts)].height,
          diameter |-> MaxDiameter(geometry.parts), csgOf |-> <<>>]
    ELSE [minY2 |-> 0, maxY2 |-> 0, diameter |-> 0,
          csgOf |-> <<geometry.parts, geometry.cutter>>]

\* DrillViewer: new THREE.Mesh(generateDrillGeometry(parameters), material)
viewportMesh(p, f) == generateDrillGeometry(p, f).geometry

\* An exporter that writes the blank instead of the finished drill
stlMeshUnfluted(p, f) == generateDrillGeometry(p, f).blank

\* exportDrillToSTL: new THREE.Mesh(generateDrillGeometry(parameters)),
\* added to a fresh scene and handed to STLExporter.parse
stlMesh(p, f) == generateDrillGeometry(p, f).geometry

MeshInit ==
    /\ genParams \in MeshInputs
    /\ genFault \in GenFaults
    /\ genOut = NotCalled
    /\ validated = NotValidated
    /\ calc = NotCalculated
    /\ NoPureCalls
    /\ IdleUI
    /\ showToasts = TRUE
    /\ IdleExport
    /\ exportUtils = "throwing"

\* The viewer's update effect builds and adds its mesh.
ViewportRender ==
    /\ ~meshCalls.rendered
    /\ meshCalls' = [meshCalls EXCEPT
                        !.rendered = TRUE,
                        !.viewport = viewportMesh(genParams, genFault)]
    /\ UNCHANGED <<viewer, genParams, genFault, genOut, validated, calc,
                   chamferCalls, dxf, uiVars, showToasts, toasts, exportVars>>

\* exportDrillToSTL builds its mesh and hands it to the exporter.
StlExport ==
    /\ ~meshCalls.exported
    /\ meshCalls' = [meshCalls EXCEPT
                        !.exported = TRUE,
                        !.stl = stlMesh(genParams, genFault)]
    /\ UNCHANGED <<viewer, genParams, genFault, genOut, validated, calc,
                   chamferCalls, dxf, uiVars, showToasts, toasts, exportVars>>

MeshNext == ViewportRender \/ StlExport

MeshSpec == MeshInit /\ [][MeshNext]_vars

----------------------------------------------------------------------------
(* DxfSpec: the 2D edge extraction of the DXF exporter, run twice on one   *)
(* object.  Coordinates are integers in thousandths of a millimetre.       *)

Mm == 10 * 10 * 10

MaxChildren == 3

Vec(x, y, z) == [x |-> x, y |-> y, z |-> z]
Edge(start, end) == [start |-> start, end |-> end]

\* A Mesh child of the exported group, given by the segments EdgesGeometry
\* derives from its geometry and, if the geometry is a CylinderGeometry or
\* a ConeGeometry, by its parameters.
MeshChild(edges, isCylinder, radiusTop, radiusBottom, height, radialSegments) ==
    [type |-> "Mesh", edges |-> edges, points |-> <<>>,
     isCylinder |-> isCylinder, radiusTop |-> radiusTop,
     radiusBottom |-> radiusBottom, height |-> height,
     radialSegments |-> radialSegments]

\* A Line child, given by the points of its geometry
LineChild(points) ==
    [type |-> "Line", edges |-> <<>>, points |-> points,
     isCylinder |-> FALSE, radiusTop |-> 0, radiusBottom |-> 0,
     height |-> 0, radialSegments |-> 0]

\* Math.cos and Math.sin of (i / segments) * 2 * Math.PI, to the thousandth,
\* for the quarter turns of a geometry of four radial segments
CosTurn(i, segments) == CASE segments = 4 -> <<1, 0, -1, 0, 1>>[i + 1]
SinTurn(i, segments) == CASE segments = 4 -> <<0, 1, 0, -1, 0>>[i + 1]

\* "Add top and bottom circle edges": per segment the top edge, then the
\* bottom edge
circleEdgesOf(child) ==
    LET radius == IF child.radiusTop # 0 THEN child.radiusTop
                  ELSE child.radiusBottom
        segments == IF child.radialSegments # 0 THEN child.radialSegments
                    ELSE 32
        at(i, y) == Vec(radius * CosTurn(i, segments), y,
                        radius * SinTurn(i, segments))
    IN  [k \in 1..(2 * segments) |->
            IF k % 2 = 1
            THEN Edge(at((k - 1) \div 2, child.height \div 2),
                      at((k - 1) \div 2 + 1, child.height \div 2))
            ELSE Edge(at((k - 1) \div 2, -(child.height \div 2)),
                      at((k - 1) \div 2 + 1, -(child.height \div 2)))]

\* isSignificant && (isVertical || isHorizontal || isOutline || isCircular)
isStructuralEdge(e) ==
    LET dx == e.end.x - e.start.x
        dy == e.end.y - e.start.y
        dz == e.end.z - e.start.z
        lengthSq == dx * dx + dy * dy + dz * dz
        isSignificant == lengthSq > (Mm \div 10) * (Mm \div 10)
        isVertical == Abs(dz) > Abs(dx)
        isHorizontal == Abs(dx) > Abs(dz)
        isOutline == Abs(dx) < Mm \div 100 \/ Abs(dz) < Mm \div 100
        isCircular == IF lengthSq = 0 THEN TRUE
                      ELSE dy * dy <= (lengthSq - 1) \div 100
    IN  isSignificant
          /\ (isVertical \/ isHorizontal \/ isOutline \/ isCircular)

\* The segments kept of a Line: the first, the middle one of a line of more
\* than four points, and the last
helixSegmentsOf(keyPoints) ==
    LET n == Len(keyPoints)
        midIndex == n \div 2
    IN  IF n >= 3
        THEN <<Edge(keyPoints[1], keyPoints[2])>>
               \o (IF n > 4
                   THEN <<Edge(keyPoints[midIndex + 1],
                               keyPoints[midIndex + 2])>>
                   ELSE <<>>)
               \o <<Edge(keyPoints[n - 1], keyPoints[n])>>
        ELSE <<>>

\* object.traverse over the children, in order: what is pushed on
\* silhouetteEdges and on helixLines.  World matrices are the identity.
RECURSIVE silhouetteEdgesOf(_)
silhouetteEdgesOf(children) ==
    IF children = <<>> THEN <<>>
    ELSE (IF Head(children).type = "Mesh"
          THEN SelectSeq(Head(children).edges, isStructuralEdge)
                 \o (IF Head(children).isCylinder
                     THEN circleEdgesOf(Head(children)) ELSE <<>>)
          ELSE <<>>)
           \o silhouetteEdgesOf(Tail(children))

RECURSIVE helixLinesOf(_)
helixLinesOf(children) ==
    IF children = <<>> THEN <<>>
    ELSE (IF Head(children).type = "Line"
          THEN helixSegmentsOf(Head(children).points) ELSE <<>>)
           \o helixLinesOf(Tail(children))

extractEdgesFromObject(object) ==
    silhouetteEdgesOf(object.children) \o helixLinesOf(object.children)

\* Vector3.normalize for a vector along one axis, or the zero vector
normalize(v) == Vec(Sign(v.x) * (IF v.x = 0 THEN 0 ELSE 1),
                    Sign(v.y) * (IF v.y = 0 THEN 0 ELSE 1),
                    Sign(v.z) * (IF v.z = 0 THEN 0 ELSE 1))

projectPointToPlane(point, cameraPosition) ==
    LET normal == normalize(cameraPosition)
        distance == (point.x - cameraPosition.x) * normal.x
                      + (point.y - cameraPosition.y) * normal.y
                      + (point.z - cameraPosition.z) * normal.z
    IN  Vec(point.x - normal.x * distance, point.y - normal.y * distance,
            point.z - normal.z * distance)

\* drawing.drawLine(x1, y1, x2, y2)
drawLine(x1, y1, x2, y2) == [x1 |-> x1, y1 |-> y1, x2 |-> x2, y2 |-> y2]

\* The placements enhancedThreeJsToDXF hands to the views, for a bounding
\* box of 4 x 5 x 4 mm: margin 2.5 mm, offsetY 10 mm.
ViewPlace(view) ==
    CASE view = "top"   -> [x |-> 5 * (Mm \div 2), y |-> 20 * Mm, scale |-> 1]
      [] view = "front" -> [x |-> 5 * (Mm \div 2), y |-> 10 * Mm, scale |-> 1]
      [] view = "side"  -> [x |-> 9 * Mm, y |-> 10 * Mm, scale |-> 1]

addTopView(object, place) ==
    LET cameraPosition == Vec(0, 0, 1000 * Mm)
        edges == extractEdgesFromObject(object)
    IN  [i \in 1..Len(edges) |->
            LET startProjected ==
                    projectPointToPlane(edges[i].start, cameraPosition)
                endProjected ==
                    projectPointToPlane(edges[i].end, cameraPosition)
            IN  drawLine(place.x + startProjected.x * place.scale,
                         place.y + startProjected.y * place.scale,
                         place.x + endProjected.x * place.scale,
                         place.y + endProjected.y * place.scale)]

addFrontView(object, place) ==
    LET cameraPosition == Vec(0, 1000 * Mm, 0)
        edges == extractEdgesFromObject(object)
    IN  [i \in 1..Len(edges) |->
            LET startProjected ==
                    projectPointToPlane(edges[i].start, cameraPosition)
                endProjected ==
                    projectPointToPlane(edges[i].end, cameraPosition)
            IN  drawLine(place.x + startProjected.x * place.scale,
                         place.y + startProjected.z * place.scale,
                         place.x + endProjected.x * place.scale,
                         place.y + endProjected.z * place.scale)]

\* Twice the average X coordinate of an edge
depthOf(e) == e.start.x + e.end.x

\* edges.sort((a, b) => bX - aX): a stable sort, largest X first
RECURSIVE insertByDepth(_, _)
insertByDepth(sorted, e) ==
    IF sorted = <<>> THEN <<e>>
    ELSE IF depthOf(Head(sorted)) >= depthOf(e)
    THEN <<Head(sorted)>> \o insertByDepth(Tail(sorted), e)
    ELSE <<e>> \o sorted

RECURSIVE sortByDepth(_)
sortByDepth(edges) ==
    IF edges = <<>> THEN <<>>
    ELSE insertByDepth(sortByDepth(SubSeq(edges, 1, Len(edges) - 1)),
                       edges[Len(edges)])

\* Number.prototype.toFixed(2): the sign and the hundredths nearest to the
\* magnitude; a small negative number gives "-0.00"
toFixed2(v) ==
    [negative |-> v < 0, hundredths |-> (Abs(v) + Mm \div 200) \div (Mm \div 100)]

\* `${a.y.toFixed(2)},${a.z.toFixed(2)}-${b.y.toFixed(2)},${b.z.toFixed(2)}`
segmentKey(a, b) ==
    <<toFixed2(a.y), toFixed2(a.z), toFixed2(b.y), toFixed2(b.z)>>

\* A reverse key that is the key itself
reverseKeySame(startProjected, endProjected) ==
    segmentKey(startProjected, endProjected)

reverseKey(startProjected, endProjected) ==
    segmentKey(endProjected, startProjected)

\* The loop of addSideView over sortedEdges: the lines drawn, given the
\* keys in drawnRegions and the lines drawn so far
RECURSIVE drawVisibleEdges(_, _, _, _)
drawVisibleEdges(sortedEdges, drawnRegions, lines, place) ==
    IF sortedEdges = <<>> THEN lines
    ELSE LET cameraPosition == Vec(1000 * Mm, 0, 0)
             startProjected ==
                 projectPointToPlane(Head(sortedEdges).start,
                                     cameraPosition)
             endProjected ==
                 projectPointToPlane(Head(sortedEdges).end, cameraPosition)
             key == segmentKey(startProjected, endProjected)
         IN  IF key \notin drawnRegions
                /\ reverseKey(startProjected, endProjected)
                     \notin drawnRegions
             THEN drawVisibleEdges(
                     Tail(sortedEdges), drawnRegions \cup {key},
                     Append(lines,
                            drawLine(
                               place.x + startProjected.y * place.scale,
                               place.y + startProjected.z * place.scale,
                               place.x + endProjected.y * place.scale,
                               place.y + endProjected.z * place.scale)),
                     place)
             ELSE drawVisibleEdges(Tail(sortedEdges), drawnRegions, lines,
                                   place)

addSideView(object, place) ==
    LET sortedEdges == sortByDepth(extractEdgesFromObject(object))
    IN  [sorted |-> sortedEdges,
         lines |-> drawVisibleEdges(sortedEdges, {}, <<>>, place)]

\* A view that leaves the children of the object in reverse order
objectAfterViewsReversed(object) ==
    [children |-> [i \in 1..Len(object.children)
                     |-> object.children[Len(object.children) + 1 - i]]]

\* Every view works on object.clone(), and addSideView sorts the array
\* that extractEdgesFromObject built for it: the object is left as it was.
objectAfterViews(object) == object

\* The three views of enhancedThreeJsToDXF
viewsOf(object) ==
    [edges |-> extractEdgesFromObject(object),
     top |-> addTopView(object, ViewPlace("top")),
     front |-> addFrontView(object, ViewPlace("front")),
     sorted |-> addSideView(object, ViewPlace("side")).sorted,
     side |-> addSideView(object, ViewPlace("side")).lines]

\* The children the model builds its objects from
FrontEdge == Edge(Vec(2 * Mm, 0, 0), Vec(2 * Mm, 5 * Mm, 0))
BackEdge == Edge(Vec(-2 * Mm, 0, 0), Vec(-2 * Mm, 5 * Mm, 0))
BackEdgeReversed == Edge(Vec(-2 * Mm, 5 * Mm, 0), Vec(-2 * Mm, 0, 0))
ShortEdge == Edge(Vec(0, 0, 0), Vec(0, Mm \div 20, 0))
SteepEdge == Edge(Vec(0, 0, 0), Vec(Mm, 5 * Mm, Mm))
NearEdge == Edge(Vec(Mm, -4, 0), Vec(Mm, 5 * Mm, 0))
CrossEdge == Edge(Vec(-Mm, 0, Mm), Vec(Mm, 0, -Mm))

DxfChildren ==
    {MeshChild(<<BackEdge, FrontEdge, ShortEdge>>, FALSE, 0, 0, 0, 0),
     MeshChild(<<BackEdgeReversed, SteepEdge, NearEdge>>, FALSE, 0, 0, 0,
               0),
     MeshChild(<<CrossEdge>>, TRUE, 0, Mm, 2 * Mm, 4),
     LineChild(<<Vec(2 * Mm, 0, 0), Vec(Mm, Mm, Mm), Vec(0, 2 * Mm, 2 * Mm),
                 Vec(-Mm, 3 * Mm, Mm), Vec(-2 * Mm, 4 * Mm, 0)>>),
     LineChild(<<Vec(2 * Mm, 0, 0), Vec(2 * Mm, 5 * Mm, 0)>>)}

DxfObjects ==
    {[children |-> c] :
        c \in UNION {[1..n -> DxfChildren] : n \in 1..MaxChildren}}

DxfInit ==
    /\ genParams = DefaultParameters
    /\ genFault = NoFault
    /\ genOut = NotCalled
    /\ validated = NotValidated
    /\ calc = NotCalculated
    /\ chamferCalls = NoChamfer
    /\ meshCalls = NoMeshes
    /\ dxf \in {[NoDrawing EXCEPT !.object = o] : o \in DxfObjects}
    /\ IdleUI
    /\ showToasts = TRUE
    /\ IdleExport
    /\ exportUtils = "throwing"

\* enhancedThreeJsToDXF adds its three views of the object.
AddViews ==
    /\ dxf.runs < 2
    /\ dxf' = [dxf EXCEPT
                  !.runs = @ + 1,
                  !.first = IF dxf.runs = 0 THEN viewsOf(dxf.object) ELSE @,
                  !.second = IF dxf.runs = 1 THEN viewsOf(dxf.object)
                             ELSE @,
                  !.object = objectAfterViews(dxf.object)]
    /\ UNCHANGED <<viewer, genParams, genFault, genOut, validated, calc,
                   chamferCalls, meshCalls, uiVars, showToasts, toasts,
                   exportVars>>

DxfNext == AddViews

DxfSpec == DxfInit /\ [][DxfNext]_vars

Reversed(line) == drawLine(line.x2, line.y2, line.x1, line.y1)

----------------------------------------------------------------------------
(* SliderSpec: components/ParameterInput.tsx, the panel whose handler      *)
(* hands every update to debouncedParameterChange, driven by its sliders   *)

\* calculateMinLength of components/ParameterInput.tsx: no buffer, not
\* rounded
calculateMinLengthNoBuffer(params) ==
    params.shankLength + params.fluteLength
      + Abs(params.diameter - params.shankDiameter) \div 2

\* handleSliderChange(key)(value): handleParameterChange(key, value[0]) for
\* the number value[0]
handleSliderChange(params, key, numValue) ==
    IF numValue < 0
    THEN Handled(<<>>, <<Update(key, 0)>>, <<>>)
    ELSE IF key \in {"shankLength", "fluteLength", "diameter",
                     "shankDiameter"}
    THEN LET updatedParams == [params EXCEPT ![key] = numValue]
             minLength == calculateMinLengthNoBuffer(updatedParams)
         IN  IF updatedParams.length < minLength
             THEN Handled(<<>>,
                          <<Update("length", minLength),
                            Update("nonCuttingLength", 0),
                            Update(key, numValue)>>,
                          <<"warning:length adjusted">>)
             ELSE Handled(<<>>,
                          <<Update("nonCuttingLength",
                                   updatedParams.length - minLength),
                            Update(key, numValue)>>,
                          <<>>)
    ELSE IF key = "length"
    THEN LET minLength == calculateMinLengthNoBuffer(params)
         IN  IF numValue < minLength
             THEN Handled(<<>>,
                          <<Update("length", numValue),
                            Update("length", minLength),
                            Update("nonCuttingLength", 0)>>,
                          <<"error:length below minimum">>)
             ELSE Handled(<<>>,
                          <<Update("length", numValue),
                            Update("nonCuttingLength",
                                   numValue - minLength)>>,
                          <<>>)
    ELSE Handled(<<>>, <<Update(key, numValue)>>, <<>>)

SliderKeys == {"diameter", "shankDiameter", "shankLength", "fluteLength",
               "length", "helixAngle"}

\* Positions the model drags each slider to
SliderValues(key) ==
    CASE key = "diameter"      -> {6 * Scale, 10 * Scale}
      [] key = "shankDiameter" -> {6 * Scale, 10 * Scale}
      [] key = "shankLength"   -> {30 * Scale, 45 * Scale}
      [] key = "fluteLength"   -> {60 * Scale, 70 * Scale}
      [] key = "length"        -> {50 * Scale, 120 * Scale}
      [] key = "helixAngle"    -> {0, 30}

\* A slider is moved: every debouncedParameterChange call of the handler
\* clears the timer of the call before it.
SliderChange(key, value) ==
    Commit(handleSliderChange(parameters, key, value), debounceTimer)

SliderNext ==
    \/ \E key \in SliderKeys : \E value \in SliderValues(key) :
          SliderChange(key, value)
    \/ DebounceFire

SliderSpec == Init /\ [][SliderNext]_vars

\* The updates waiting for delivery once a handler has made its calls of
\* debouncedParameterChange: the pending one, then the handler's, in order
HandedOver(timer, debounced) ==
    (IF timer.pending THEN <<Update(timer.key, timer.value)>> ELSE <<>>)
      \o debounced

\* Every update but the last has its timer cleared; it is superseded if a
\* later update is for the same parameter.
AllSuperseded(updates) ==
    \A i \in 1..Len(updates) :
       i < Len(updates)
          => \E j \in (i + 1)..Len(updates) :
                updates[j].key = updates[i].key

\* C28: no update is lost by debouncing: an update whose timer is cleared
\* is superseded by a later update to the same parameter; in particular
\* the updates of one auto-clamp batch all stay due for delivery.
C28_NoUpdateLostByDebounce ==
    [][\A key \in SliderKeys : \A value \in SliderValues(key) :
          SliderChange(key, value)
             => AllSuperseded(
                   HandedOver(debounceTimer,
                              handleSliderChange(parameters, key,
                                                 value).debounced))]_vars

----------------------------------------------------------------------------
(* LiveSpec: the page under the scheduling of its timers.  A callback     *)
(* registered with setTimeout is run by the event loop once its delay has *)
(* elapsed; handleGenerateModel never clears its timeout.                 *)

LiveSpec == Spec /\ WF_vars(GenerateTimeout)

\* C29: every generation request eventually completes: once isGenerating
\* is set it eventually returns to false with the model marked generated.
C29_GenerationCompletes ==
    isGenerating ~> (~isGenerating /\ isModelGenerated)

C29_Witness ==
    /\ ~isGenerating
    /\ isModelGenerated
    /\ genTimers = 0
    /\ toasts = <<"generated">>

====
